---- MODULE Spec2Model ----
(***************************************************************************)
(* Model of pr-opener (index.js): a script that fetches the pull requests  *)
(* awaiting the user's review, opens a Chrome tab for each new one and     *)
(* remembers them in logs/notified.json.  One process is one invocation of *)
(* `node index.js [args]`; the files config.json and logs/notified.json    *)
(* are the shared persistent state.                                        *)
(*                                                                         *)
(* JSON objects are records whose DOMAIN is the set of keys present.  The  *)
(* ledger (notified.json) is a sequence of [key, value] pairs because a JS *)
(* object enumerates its string keys in insertion order.  A string that    *)
(* holds a date is [iso |-> ms] (what toISOString produces for ms), any    *)
(* other string is [text |-> ...].  A JS number is [num |-> n] or NaN.     *)
(***************************************************************************)
EXTENDS Integers, Sequences, FiniteSets, TLC

\* ------------------------------------------------------------------ bounds
NumPRs == 2          \* pull requests that exist on GitHub
MaxFetch == 2        \* most pull requests one gh search prints
MaxDays == 1         \* the clock runs from day 0 to day MaxDays
MaxTabs == 1         \* largest maxTabsToOpen written in config.json
MaxRetention == 1    \* largest notifiedRetentionDays written in config.json
MaxInitEntries == 1  \* entries of notified.json before the first run

\* ------------------------------------------------------- program constants
DayMs == 24 * 60 * 60 * 1000
StatsWindowDays == 7
TopRepos == 3

Procs == {1, 2}

\* loadConfig's defaults object
Defaults ==
  [maxTabsToOpen |-> 5, paused |-> FALSE, excludeDraft |-> TRUE,
   notifiedRetentionDays |-> 7, enableNotification |-> TRUE]

ConfigFields == DOMAIN Defaults

\* ------------------------------------------------------------ JS helpers
\* { ...a, ...b }
Spread(a, b) ==
  [f \in (DOMAIN a) \cup (DOMAIN b) |-> IF f \in DOMAIN b THEN b[f] ELSE a[f]]

\* Assign returning an object that holds the assigned field only
Assign_OnlyField(obj, f, v) == [g \in {f} |-> v]

\* obj with obj[f] = v assigned
Assign(obj, f, v) ==
  [g \in (DOMAIN obj) \cup {f} |-> IF g = f THEN v ELSE obj[g]]

Undefined == [undefined |-> TRUE]
NaN == [nan |-> TRUE]

\* new Date(ms).toISOString()
toISOString(ms) == [iso |-> ms]

\* new Date(s).getTime()
getTime(s) == IF "iso" \in DOMAIN s THEN [num |-> s.iso] ELSE NaN

\* a > b for a JS number a and an integer b (false when a is NaN)
JsGt(a, b) == "num" \in DOMAIN a /\ a.num > b

\* truthiness of a value that is undefined or a non-empty string
Truthy(v) == "undefined" \notin DOMAIN v

\* obj.f
Field(obj, f) == IF f \in DOMAIN obj THEN obj[f] ELSE Undefined

Range(s) == {s[i] : i \in 1..Len(s)}

Min(a, b) == IF a < b THEN a ELSE b
Max(a, b) == IF a > b THEN a ELSE b

\* Array.prototype.slice(start, end) for a start in 0..Len and any end
Slice(s, start, end) ==
  LET e == IF end < 0 THEN Max(Len(s) + end, 0) ELSE Min(end, Len(s))
  IN  IF e <= start THEN <<>> ELSE SubSeq(s, start + 1, e)

\* ------------------------------------------------------------ the ledger
\* Object.keys(obj)
Keys(led) == {led[i].key : i \in 1..Len(led)}

\* obj[k] (Undefined when k is not a key)
Lookup(led, k) ==
  IF k \in Keys(led)
  THEN led[CHOOSE i \in 1..Len(led) : led[i].key = k].value
  ELSE Undefined

\* obj[k] = v: replaces the value in place, or appends a new key
Put(led, k, v) ==
  IF k \in Keys(led)
  THEN [i \in 1..Len(led) |-> IF led[i].key = k THEN [key |-> k, value |-> v] ELSE led[i]]
  ELSE Append(led, [key |-> k, value |-> v])

\* const timestamp = value.at || value.notifiedAt
ResolvedTimestamp(value) ==
  IF Truthy(Field(value, "at")) THEN Field(value, "at") ELSE Field(value, "notifiedAt")

\* NewerThan with >= for > (an entry exactly retentionDays old survives)
NewerThan_NonStrict(value, cutoff) ==
  LET timestamp == ResolvedTimestamp(value)
      t == getTime(timestamp)
  IN  Truthy(timestamp) /\ "num" \in DOMAIN t /\ t.num >= cutoff

\* timestamp && new Date(timestamp).getTime() > cutoff
NewerThan(value, cutoff) ==
  LET timestamp == ResolvedTimestamp(value)
  IN  Truthy(timestamp) /\ JsGt(getTime(timestamp), cutoff)

RECURSIVE SkipAfterDelete(_, _, _)
SkipAfterDelete(led, cutoff, skip) ==
  IF led = <<>> THEN <<>>
  ELSE IF skip \/ NewerThan(Head(led).value, cutoff)
       THEN <<Head(led)>> \o SkipAfterDelete(Tail(led), cutoff, FALSE)
       ELSE SkipAfterDelete(Tail(led), cutoff, TRUE)

\* cleanupOldNotified deleting in place while it iterates: the entry after a
\* deleted one is never examined
cleanupOldNotified_SkipAfterDelete(notified, retentionDays, nowMs) ==
  SkipAfterDelete(notified, nowMs - retentionDays * DayMs, FALSE)

\* cleanupOldNotified(notified, retentionDays), with Date.now() = nowMs
cleanupOldNotified(notified, retentionDays, nowMs) ==
  LET cutoff == nowMs - retentionDays * DayMs
  IN  SelectSeq(notified, LAMBDA e : NewerThan(e.value, cutoff))

\* --------------------------------------------------------------- the files
Missing == [state |-> "missing"]
Corrupt == [state |-> "corrupt"]
File(data) == [state |-> "ok", data |-> data]

\* loadConfig spreading the defaults over the file's values
loadConfig_DefaultsWin(file) ==
  IF file.state = "ok" THEN Spread(file.data, Defaults) ELSE Defaults

\* loadConfig taking a file that lacks a field for no file at all
loadConfig_AllOrNothing(file) ==
  IF file.state = "ok" /\ ConfigFields \subseteq DOMAIN file.data
  THEN file.data ELSE Defaults

\* loadConfig() on the content of config.json
loadConfig(file) ==
  IF file.state = "ok" THEN Spread(Defaults, file.data) ELSE Defaults

\* loadNotified() on the content of logs/notified.json
loadNotified(file) ==
  IF file.state = "ok" THEN file.data ELSE <<>>

\* ------------------------------------------------------------------ stats
\* key.split('#')[0]
RepoOfKey(k) == k[1]

RECURSIVE CountRepos(_, _)
\* the loop of handleStats over the entries: repoCounts as [repo, count]
\* pairs in the insertion order of the object's keys
CountRepos(led, counts) ==
  IF led = <<>> THEN counts
  ELSE LET repo == RepoOfKey(Head(led).key)
           seen == \E i \in 1..Len(counts) : counts[i].repo = repo
           next == IF seen
                   THEN [i \in 1..Len(counts) |->
                          IF counts[i].repo = repo
                          THEN [repo |-> repo, count |-> counts[i].count + 1]
                          ELSE counts[i]]
                   ELSE Append(counts, [repo |-> repo, count |-> 1])
       IN  CountRepos(Tail(led), next)

RECURSIVE InsertDesc_Unstable(_, _)
\* InsertDesc placing x before the elements of equal count
InsertDesc_Unstable(sorted, x) ==
  IF sorted = <<>> THEN <<x>>
  ELSE IF Head(sorted).count > x.count
       THEN <<Head(sorted)>> \o InsertDesc_Unstable(Tail(sorted), x)
       ELSE <<x>> \o sorted

RECURSIVE InsertDesc(_, _)
\* x placed after every element whose count is not smaller
InsertDesc(sorted, x) ==
  IF sorted = <<>> THEN <<x>>
  ELSE IF Head(sorted).count >= x.count
       THEN <<Head(sorted)>> \o InsertDesc(Tail(sorted), x)
       ELSE <<x>> \o sorted

RECURSIVE SortDesc(_, _)
\* .sort((a, b) => b[1] - a[1]), a stable sort
SortDesc(s, acc) ==
  IF s = <<>> THEN acc ELSE SortDesc(Tail(s), InsertDesc(acc, Head(s)))

\* what handleStats prints for the ledger, with Date.now() = nowMs
Stats(led, nowMs) ==
  LET sevenDaysAgo == nowMs - StatsWindowDays * DayMs
  IN  [total |-> Len(led),
       recent |-> Len(SelectSeq(led, LAMBDA e : NewerThan(e.value, sevenDaysAgo))),
       topRepos |-> Slice(SortDesc(CountRepos(led, <<>>), <<>>), 0, TopRepos)]

\* ------------------------------------------------------------- pull requests
PRNumbers == 1..NumPRs

RepoOf(n) == IF n % 2 = 1 THEN "o/a" ELSE "o/b"

\* the states of a pull request's title and updatedAt over its life: an
\* edit of the title also moves updatedAt
Revisions ==
  {[title |-> "Fix", updatedAt |-> toISOString(0)],
   [title |-> "Fix v2", updatedAt |-> toISOString(DayMs)]}

\* one element of the JSON array printed by `gh search prs --json ...`
PR(n, rev) ==
  [number |-> n,
   url |-> <<"https://github.com", RepoOf(n), "pull", n>>,
   repository |-> [nameWithOwner |-> RepoOf(n)],
   title |-> rev.title,
   updatedAt |-> rev.updatedAt]

\* const key = (pr) => `${pr.repository.nameWithOwner}#${pr.number}`
key(pr) == <<pr.repository.nameWithOwner, pr.number>>

Injective(s) == \A i, j \in 1..Len(s) : s[i] = s[j] => i = j

\* the arrays gh can print: distinct pull requests in any order
GhResults ==
  LET orders == {s \in UNION {[1..n -> PRNumbers] : n \in 0..MaxFetch} : Injective(s)}
  IN  UNION {{[i \in 1..Len(s) |-> PR(s[i], rv[i])] : rv \in [1..Len(s) -> Revisions]}
             : s \in orders}

\* SelectNew taking a pull request whose title changed for a new one
SelectNew_TitleSensitive(prs, notified, maxTabsToOpen) ==
  Slice(SelectSeq(prs, LAMBDA pr :
          \/ ~Truthy(Lookup(notified, key(pr)))
          \/ Field(Lookup(notified, key(pr)), "title") # pr.title),
        0, maxTabsToOpen)

\* SelectNew with slice(0, maxTabsToOpen + 1)
SelectNew_OffByOne(prs, notified, maxTabsToOpen) ==
  Slice(SelectSeq(prs, LAMBDA pr : ~Truthy(Lookup(notified, key(pr)))),
        0, maxTabsToOpen + 1)

\* prs.filter((pr) => !notified[key(pr)]).slice(0, config.maxTabsToOpen)
SelectNew(prs, notified, maxTabsToOpen) ==
  Slice(SelectSeq(prs, LAMBDA pr : ~Truthy(Lookup(notified, key(pr)))), 0, maxTabsToOpen)

\* ---------------------------------------------------------- command line
Argvs ==
  {<<>>, <<"--dry-run">>, <<"pause">>, <<"resume">>, <<"status">>, <<"stats">>}

\* const DRY_RUN = process.argv.includes('--dry-run')
DRY_RUN(a) == "--dry-run" \in Range(a)

\* const COMMAND = process.argv[2]
COMMAND(a) == IF Len(a) >= 1 THEN a[1] ELSE "undefined"

\* --------------------------------------------------------------- the state
VARIABLES
  configFile,     \* content of config.json
  notifiedFile,   \* content of logs/notified.json
  now,            \* Date.now()
  pc,             \* per process: where it is in the script
  argv,           \* per process: process.argv.slice(2)
  config,         \* per process: main's config
  loaded,         \* per process: what loadNotified returned
  notified,       \* per process: main's notified
  pruned,         \* per process: notified as cleanupOldNotified returned it
  prs,            \* per process: main's prs
  newPRs,         \* per process: main's newPRs
  idx,            \* per process: position of the for loop in newPRs
  stdout,         \* per process: lines written by log, logError, console.log
  fetches,        \* per process: the gh commands run and whether they succeeded
  opens,          \* per process: the calls of openTab and their outcomes
  notifications,  \* per process: the calls of sendNotification
  ledgerReads,    \* per process: reads of logs/notified.json
  ledgerWrites,   \* per process: writes of logs/notified.json
  statsOut,       \* per process: what handleStats printed
  exitCode,       \* per process: exit code of the last finished run
  failedOpens     \* keys of the pull requests whose latest openTab failed

fileVars == <<configFile, notifiedFile>>
runVars == <<pc, argv, config, loaded, notified, pruned, prs, newPRs, idx>>
obsVars == <<stdout, fetches, opens, notifications, ledgerReads, ledgerWrites,
             statsOut, exitCode, failedOpens>>
vars == <<configFile, notifiedFile, now, pc, argv, config, loaded, notified, pruned,
          prs, newPRs, idx, stdout, fetches, opens, notifications, ledgerReads,
          ledgerWrites, statsOut, exitCode, failedOpens>>

NoStats == [none |-> TRUE]
NoExit == -1

Line(msg) == [msg |-> msg]
LineN(msg, n) == [msg |-> msg, n |-> n]

\* ------------------------------------------------------- initial contents
\* config.json as the user may have written it
InitConfigData ==
  [maxTabsToOpen : -1..MaxTabs, paused : BOOLEAN,
   notifiedRetentionDays : 1..MaxRetention, enableNotification : BOOLEAN]
    \cup {[excludeDraft |-> FALSE]}

InitConfigFiles == {Missing, Corrupt} \cup {File(d) : d \in InitConfigData}

\* values of notified.json written by this and by earlier versions of the
\* script, or by hand
InitValues ==
  {[at |-> toISOString(0), title |-> "Fix"],
   [at |-> toISOString(0 - DayMs), title |-> "Fix"],
   [notifiedAt |-> toISOString(0), updatedAt |-> toISOString(0), title |-> "Fix"],
   [at |-> [text |-> "yesterday"], notifiedAt |-> toISOString(0), title |-> "Fix"],
   [title |-> "Fix"]}

LedgerKeys == {<<RepoOf(n), n>> : n \in PRNumbers}

InitLedgers ==
  LET keySeqs == {s \in UNION {[1..n -> LedgerKeys] : n \in 0..MaxInitEntries} : Injective(s)}
  IN  UNION {{[i \in 1..Len(s) |-> [key |-> s[i], value |-> v[i]]]
               : v \in [1..Len(s) -> InitValues]} : s \in keySeqs}

InitNotifiedFiles == {Missing, Corrupt} \cup {File(l) : l \in InitLedgers}

\* no process has run yet
InitRun ==
  /\ pc = [p \in Procs |-> "idle"]
  /\ argv = [p \in Procs |-> <<>>]
  /\ config = [p \in Procs |-> Defaults]
  /\ loaded = [p \in Procs |-> <<>>]
  /\ notified = [p \in Procs |-> <<>>]
  /\ pruned = [p \in Procs |-> <<>>]
  /\ prs = [p \in Procs |-> <<>>]
  /\ newPRs = [p \in Procs |-> <<>>]
  /\ idx = [p \in Procs |-> 1]
  /\ stdout = [p \in Procs |-> <<>>]
  /\ fetches = [p \in Procs |-> <<>>]
  /\ opens = [p \in Procs |-> <<>>]
  /\ notifications = [p \in Procs |-> <<>>]
  /\ ledgerReads = [p \in Procs |-> 0]
  /\ ledgerWrites = [p \in Procs |-> 0]
  /\ statsOut = [p \in Procs |-> NoStats]
  /\ exitCode = [p \in Procs |-> NoExit]
  /\ failedOpens = {}

Init ==
  /\ configFile \in InitConfigFiles
  /\ notifiedFile \in InitNotifiedFiles
  /\ now = 0
  /\ InitRun

\* ----------------------------------------------------------------- actions
Stopped(p) == pc[p] \in {"idle", "exited"}

\* `node index.js a...` is started: the module's top-level constants
Start(p, a) ==
  /\ Stopped(p)
  /\ pc' = [pc EXCEPT ![p] = "top"]
  /\ argv' = [argv EXCEPT ![p] = a]
  /\ config' = [config EXCEPT ![p] = Defaults]
  /\ loaded' = [loaded EXCEPT ![p] = <<>>]
  /\ notified' = [notified EXCEPT ![p] = <<>>]
  /\ pruned' = [pruned EXCEPT ![p] = <<>>]
  /\ prs' = [prs EXCEPT ![p] = <<>>]
  /\ newPRs' = [newPRs EXCEPT ![p] = <<>>]
  /\ idx' = [idx EXCEPT ![p] = 1]
  /\ stdout' = [stdout EXCEPT ![p] = <<>>]
  /\ fetches' = [fetches EXCEPT ![p] = <<>>]
  /\ opens' = [opens EXCEPT ![p] = <<>>]
  /\ notifications' = [notifications EXCEPT ![p] = <<>>]
  /\ ledgerReads' = [ledgerReads EXCEPT ![p] = 0]
  /\ ledgerWrites' = [ledgerWrites EXCEPT ![p] = 0]
  /\ statsOut' = [statsOut EXCEPT ![p] = NoStats]
  /\ exitCode' = [exitCode EXCEPT ![p] = NoExit]
  /\ UNCHANGED <<configFile, notifiedFile, now, failedOpens>>

\* handleCommand whose status branch lacks its return
handleCommand_NoReturn(p) ==
  /\ pc[p] = "top"
  /\ COMMAND(argv[p]) \in {"pause", "resume", "status"}
  /\ LET cmd == COMMAND(argv[p])
         cfg == loadConfig(configFile)
     IN  /\ configFile' = File(Assign(cfg, "paused", cmd = "pause"))
         /\ stdout' = [stdout EXCEPT ![p] =
              IF cmd = "status"
              THEN @ \o <<Line(IF cfg.paused THEN "Paused" ELSE "Active"),
                          Line("Resumed")>>
              ELSE Append(@, Line(IF cmd = "pause" THEN "Paused" ELSE "Resumed"))]
  /\ pc' = [pc EXCEPT ![p] = "exited"]
  /\ exitCode' = [exitCode EXCEPT ![p] = 0]
  /\ UNCHANGED <<notifiedFile, now, argv, config, loaded, notified, pruned, prs,
                 newPRs, idx, fetches, opens, notifications, ledgerReads,
                 ledgerWrites, statsOut, failedOpens>>

\* handleCommand(cmd) and process.exit(0)
handleCommand(p) ==
  /\ pc[p] = "top"
  /\ COMMAND(argv[p]) \in {"pause", "resume", "status"}
  /\ LET cmd == COMMAND(argv[p])
         cfg == loadConfig(configFile)
     IN  IF cmd = "status"
         THEN /\ stdout' = [stdout EXCEPT ![p] =
                   Append(@, Line(IF cfg.paused THEN "Paused" ELSE "Active"))]
              /\ UNCHANGED configFile
         ELSE /\ configFile' = File(Assign(cfg, "paused", cmd = "pause"))
              /\ stdout' = [stdout EXCEPT ![p] =
                   Append(@, Line(IF cmd = "pause" THEN "Paused" ELSE "Resumed"))]
  /\ pc' = [pc EXCEPT ![p] = "exited"]
  /\ exitCode' = [exitCode EXCEPT ![p] = 0]
  /\ UNCHANGED <<notifiedFile, now, argv, config, loaded, notified, pruned, prs,
                 newPRs, idx, fetches, opens, notifications, ledgerReads,
                 ledgerWrites, statsOut, failedOpens>>

\* handleStats() and process.exit(0)
handleStats(p) ==
  /\ pc[p] = "top"
  /\ COMMAND(argv[p]) = "stats"
  /\ statsOut' = [statsOut EXCEPT ![p] = Stats(loadNotified(notifiedFile), now)]
  /\ ledgerReads' = [ledgerReads EXCEPT ![p] = @ + 1]
  /\ stdout' = [stdout EXCEPT ![p] = Append(@, Line("PR Opener Stats"))]
  /\ pc' = [pc EXCEPT ![p] = "exited"]
  /\ exitCode' = [exitCode EXCEPT ![p] = 0]
  /\ UNCHANGED <<configFile, notifiedFile, now, argv, config, loaded, notified,
                 pruned, prs, newPRs, idx, fetches, opens, notifications,
                 ledgerWrites, failedOpens>>

\* main(): loadConfig and the paused check
mainLoadConfig(p) ==
  /\ pc[p] = "top"
  /\ COMMAND(argv[p]) \notin {"pause", "resume", "status", "stats"}
  /\ LET cfg == loadConfig(configFile)
     IN  /\ config' = [config EXCEPT ![p] = cfg]
         /\ IF cfg.paused
            THEN /\ stdout' = [stdout EXCEPT ![p] = Append(@, Line("Paused"))]
                 /\ pc' = [pc EXCEPT ![p] = "exited"]
                 /\ exitCode' = [exitCode EXCEPT ![p] = 0]
            ELSE /\ stdout' = [stdout EXCEPT ![p] = Append(@, Line("Started"))]
                 /\ pc' = [pc EXCEPT ![p] = "loadNotified"]
                 /\ UNCHANGED exitCode
  /\ UNCHANGED <<configFile, notifiedFile, now, argv, loaded, notified, pruned, prs,
                 newPRs, idx, fetches, opens, notifications, ledgerReads,
                 ledgerWrites, statsOut, failedOpens>>

\* mainLoadNotified whose loadNotified has neither existsSync nor catch: a
\* file that is missing or does not parse ends the process
mainLoadNotified_NoCatch(p) ==
  /\ pc[p] = "loadNotified"
  /\ LET ok == notifiedFile.state = "ok"
         read == loadNotified(notifiedFile)
         cleaned == cleanupOldNotified(read, config[p].notifiedRetentionDays, now)
     IN  /\ loaded' = [loaded EXCEPT ![p] = read]
         /\ notified' = [notified EXCEPT ![p] = cleaned]
         /\ pruned' = [pruned EXCEPT ![p] = cleaned]
         /\ pc' = [pc EXCEPT ![p] = IF ok THEN "fetch" ELSE "exited"]
         /\ exitCode' = [exitCode EXCEPT ![p] = IF ok THEN @ ELSE 1]
  /\ ledgerReads' = [ledgerReads EXCEPT ![p] = @ + 1]
  /\ UNCHANGED <<configFile, notifiedFile, now, argv, config, prs, newPRs, idx,
                 stdout, fetches, opens, notifications, ledgerWrites, statsOut,
                 failedOpens>>

\* main(): loadNotified and cleanupOldNotified
mainLoadNotified(p) ==
  /\ pc[p] = "loadNotified"
  /\ LET read == loadNotified(notifiedFile)
         cleaned == cleanupOldNotified(read, config[p].notifiedRetentionDays, now)
     IN  /\ loaded' = [loaded EXCEPT ![p] = read]
         /\ notified' = [notified EXCEPT ![p] = cleaned]
         /\ pruned' = [pruned EXCEPT ![p] = cleaned]
  /\ ledgerReads' = [ledgerReads EXCEPT ![p] = @ + 1]
  /\ pc' = [pc EXCEPT ![p] = "fetch"]
  /\ UNCHANGED <<configFile, notifiedFile, now, argv, config, prs, newPRs, idx,
                 stdout, fetches, opens, notifications, ledgerWrites, statsOut,
                 exitCode, failedOpens>>

\* mainFetch whose fetchPRs has no catch: a failure of gh ends the process
mainFetch_NoCatch(p, ghOk, result) ==
  /\ pc[p] = "fetch"
  /\ LET selected == SelectNew(result, notified[p], config[p].maxTabsToOpen)
     IN  /\ prs' = [prs EXCEPT ![p] = IF ghOk THEN result ELSE <<>>]
         /\ fetches' = [fetches EXCEPT ![p] =
              Append(@, [draftFilter |-> config[p].excludeDraft, limit |-> 50,
                         ok |-> ghOk])]
         /\ newPRs' = [newPRs EXCEPT ![p] = IF ghOk THEN selected ELSE <<>>]
         /\ stdout' = [stdout EXCEPT ![p] =
              IF ~ghOk THEN @
              ELSE IF Len(result) = 0 THEN Append(@, LineN("Fetched", 0))
              ELSE @ \o <<LineN("Fetched", Len(result)), LineN("New", Len(selected))>>]
         /\ pc' = [pc EXCEPT ![p] =
              IF ~ghOk THEN "exited"
              ELSE IF Len(result) = 0 THEN "saveEmpty"
              ELSE IF Len(selected) = 0 THEN "notify" ELSE "open"]
         /\ exitCode' = [exitCode EXCEPT ![p] = IF ghOk THEN @ ELSE 1]
  /\ UNCHANGED <<configFile, notifiedFile, now, argv, config, loaded, notified,
                 pruned, idx, opens, notifications, ledgerReads, ledgerWrites,
                 statsOut, failedOpens>>

\* fetchPRs(excludeDraft) returning result, or [] when gh failed; then main
\* up to the for loop
mainFetch(p, ghOk, result) ==
  /\ pc[p] = "fetch"
  /\ LET fetched == IF ghOk THEN result ELSE <<>>
         selected == SelectNew(fetched, notified[p], config[p].maxTabsToOpen)
         errLines == IF ghOk THEN <<>> ELSE <<Line("[ERROR] GitHub API failed")>>
     IN  /\ prs' = [prs EXCEPT ![p] = fetched]
         /\ fetches' = [fetches EXCEPT ![p] =
              Append(@, [draftFilter |-> config[p].excludeDraft, limit |-> 50,
                         ok |-> ghOk])]
         /\ IF Len(fetched) = 0
            THEN /\ stdout' = [stdout EXCEPT ![p] =
                      @ \o errLines \o <<LineN("Fetched", 0)>>]
                 /\ pc' = [pc EXCEPT ![p] = "saveEmpty"]
                 /\ UNCHANGED newPRs
            ELSE /\ stdout' = [stdout EXCEPT ![p] =
                      @ \o errLines \o
                      <<LineN("Fetched", Len(fetched)), LineN("New", Len(selected))>>]
                 /\ newPRs' = [newPRs EXCEPT ![p] = selected]
                 /\ pc' = [pc EXCEPT ![p] = IF Len(selected) = 0 THEN "notify" ELSE "open"]
  /\ UNCHANGED <<configFile, notifiedFile, now, argv, config, loaded, notified,
                 pruned, idx, opens, notifications, ledgerReads, ledgerWrites,
                 statsOut, exitCode, failedOpens>>

\* mainSaveEmpty returning without saveNotified
mainSaveEmpty_NoSave(p) ==
  /\ pc[p] = "saveEmpty"
  /\ stdout' = [stdout EXCEPT ![p] = Append(@, Line("No review requests"))]
  /\ pc' = [pc EXCEPT ![p] = "exited"]
  /\ exitCode' = [exitCode EXCEPT ![p] = 0]
  /\ UNCHANGED <<fileVars, now, argv, config, loaded, notified, pruned, prs, newPRs,
                 idx, fetches, opens, notifications, ledgerReads, ledgerWrites,
                 statsOut, failedOpens>>

\* main(): the empty-fetch branch, saveNotified and return
mainSaveEmpty(p) ==
  /\ pc[p] = "saveEmpty"
  /\ notifiedFile' = File(notified[p])
  /\ ledgerWrites' = [ledgerWrites EXCEPT ![p] = @ + 1]
  /\ stdout' = [stdout EXCEPT ![p] = Append(@, Line("No review requests"))]
  /\ pc' = [pc EXCEPT ![p] = "exited"]
  /\ exitCode' = [exitCode EXCEPT ![p] = 0]
  /\ UNCHANGED <<configFile, now, argv, config, loaded, notified, pruned, prs,
                 newPRs, idx, fetches, opens, notifications, ledgerReads, statsOut,
                 failedOpens>>

\* openTab reporting a dry run as a failed open
openTab_DryFails(dryRun, launched) == IF dryRun THEN FALSE ELSE launched

\* openTab(url): TRUE without a browser in a dry run, else whether `open`
\* exited cleanly
openTab(dryRun, launched) == IF dryRun THEN TRUE ELSE launched

\* Record stamping the entry with the pull request's updatedAt
Record_UpdatedAt(led, pr, ok, nowMs) ==
  IF ok THEN Put(led, key(pr), [at |-> pr.updatedAt, title |-> pr.title])
  ELSE led

\* Record without the test of openTab's result
Record_Always(led, pr, ok, nowMs) ==
  Put(led, key(pr), [at |-> toISOString(nowMs), title |-> pr.title])

\* if (openTab(pr.url)) notified[key(pr)] = { at: ..., title: pr.title }
Record(led, pr, ok, nowMs) ==
  IF ok THEN Put(led, key(pr), [at |-> toISOString(nowMs), title |-> pr.title])
  ELSE led

\* mainOpenTab that stays on a pull request whose open failed, to try it again
mainOpenTab_Retry(p, launched) ==
  /\ pc[p] = "open"
  /\ idx[p] <= Len(newPRs[p])
  /\ DRY_RUN(argv[p]) => launched
  /\ LET pr == newPRs[p][idx[p]]
         dry == DRY_RUN(argv[p])
         ok == openTab(dry, launched)
     IN  /\ opens' = [opens EXCEPT ![p] =
              Append(@, [url |-> pr.url, browser |-> ~dry, ok |-> ok])]
         /\ stdout' = [stdout EXCEPT ![p] =
              Append(@, Line(IF dry THEN "[DRY-RUN] Would open"
                             ELSE IF ok THEN "Opened" ELSE "[ERROR] Failed"))]
         /\ notified' = [notified EXCEPT ![p] = Record(@, pr, ok, now)]
         /\ failedOpens' = IF ok THEN failedOpens \ {key(pr)}
                                 ELSE failedOpens \cup {key(pr)}
         /\ idx' = [idx EXCEPT ![p] = IF ok THEN @ + 1 ELSE @]
         /\ pc' = [pc EXCEPT ![p] =
              IF ok /\ idx[p] = Len(newPRs[p]) THEN "notify" ELSE "open"]
  /\ UNCHANGED <<configFile, notifiedFile, now, argv, config, loaded, pruned, prs,
                 newPRs, fetches, notifications, ledgerReads, ledgerWrites, statsOut,
                 exitCode>>

\* one iteration of main's for loop; launched is the outcome of `open -a`
mainOpenTab(p, launched) ==
  /\ pc[p] = "open"
  /\ idx[p] <= Len(newPRs[p])
  /\ DRY_RUN(argv[p]) => launched
  /\ LET pr == newPRs[p][idx[p]]
         dry == DRY_RUN(argv[p])
         ok == openTab(dry, launched)
     IN  /\ opens' = [opens EXCEPT ![p] =
              Append(@, [url |-> pr.url, browser |-> ~dry, ok |-> ok])]
         /\ stdout' = [stdout EXCEPT ![p] =
              Append(@, Line(IF dry THEN "[DRY-RUN] Would open"
                             ELSE IF ok THEN "Opened" ELSE "[ERROR] Failed"))]
         /\ notified' = [notified EXCEPT ![p] = Record(@, pr, ok, now)]
         /\ failedOpens' = IF ok THEN failedOpens \ {key(pr)}
                                 ELSE failedOpens \cup {key(pr)}
  /\ idx' = [idx EXCEPT ![p] = @ + 1]
  /\ pc' = [pc EXCEPT ![p] = IF idx[p] = Len(newPRs[p]) THEN "notify" ELSE "open"]
  /\ UNCHANGED <<configFile, notifiedFile, now, argv, config, loaded, pruned, prs,
                 newPRs, fetches, notifications, ledgerReads, ledgerWrites, statsOut,
                 exitCode>>

\* ShouldNotify without the test of enableNotification
ShouldNotify_Always(selected, cfg) == Len(selected) > 0

\* the condition of main's call of sendNotification
ShouldNotify(selected, cfg) == Len(selected) > 0 /\ cfg.enableNotification

\* the count in the message of sendNotification
NotifyCount(selected) == Len(selected)

\* main(): sendNotification when due; shown is whether osascript succeeded,
\* which sendNotification's catch hides from main
mainNotify(p, shown) ==
  /\ pc[p] = "notify"
  /\ IF ShouldNotify(newPRs[p], config[p])
     THEN notifications' = [notifications EXCEPT ![p] =
            Append(@, [title |-> "PR Opener",
                       count |-> NotifyCount(newPRs[p])])]
     ELSE UNCHANGED notifications
  /\ pc' = [pc EXCEPT ![p] = "persist"]
  /\ UNCHANGED <<configFile, notifiedFile, now, argv, config, loaded, notified,
                 pruned, prs, newPRs, idx, stdout, fetches, opens, ledgerReads,
                 ledgerWrites, statsOut, exitCode, failedOpens>>

\* mainPersist that reads notified.json again and adds to its entries those
\* of the run, as under a lock
mainPersist_Merge(p) ==
  /\ pc[p] = "persist"
  /\ LET onDisk == loadNotified(notifiedFile)
         mine == SelectSeq(notified[p], LAMBDA x : x.key \notin Keys(onDisk))
     IN  notifiedFile' = File(onDisk \o mine)
  /\ ledgerWrites' = [ledgerWrites EXCEPT ![p] = @ + 1]
  /\ stdout' = [stdout EXCEPT ![p] = Append(@, Line("Done"))]
  /\ pc' = [pc EXCEPT ![p] = "exited"]
  /\ exitCode' = [exitCode EXCEPT ![p] = 0]
  /\ UNCHANGED <<configFile, now, argv, config, loaded, notified, pruned, prs,
                 newPRs, idx, fetches, opens, notifications, ledgerReads, statsOut,
                 failedOpens>>

\* main(): saveNotified and 'Done'
mainPersist(p) ==
  /\ pc[p] = "persist"
  /\ notifiedFile' = File(notified[p])
  /\ ledgerWrites' = [ledgerWrites EXCEPT ![p] = @ + 1]
  /\ stdout' = [stdout EXCEPT ![p] = Append(@, Line("Done"))]
  /\ pc' = [pc EXCEPT ![p] = "exited"]
  /\ exitCode' = [exitCode EXCEPT ![p] = 0]
  /\ UNCHANGED <<configFile, now, argv, config, loaded, notified, pruned, prs,
                 newPRs, idx, fetches, opens, notifications, ledgerReads, statsOut,
                 failedOpens>>

\* a day passes between two invocations (the wrapping loop sleeps)
Tick ==
  /\ \A p \in Procs : Stopped(p)
  /\ now < MaxDays * DayMs
  /\ now' = now + DayMs
  /\ pc' = [p \in Procs |-> "idle"]
  /\ UNCHANGED <<fileVars, argv, config, loaded, notified, pruned, prs, newPRs, idx,
                 obsVars>>

\* one step of process p
Step(p) ==
  \/ \E a \in Argvs : Start(p, a)
  \/ handleCommand(p)
  \/ handleStats(p)
  \/ mainLoadConfig(p)
  \/ mainLoadNotified(p)
  \/ \E result \in GhResults : mainFetch(p, TRUE, result)
  \/ mainFetch(p, FALSE, <<>>)
  \/ mainSaveEmpty(p)
  \/ \E launched \in BOOLEAN : mainOpenTab(p, launched)
  \/ \E shown \in BOOLEAN : mainNotify(p, shown)
  \/ mainPersist(p)

\* the invocations follow one another (the shell loop of the README)
Next == Step(1) \/ Tick

Spec == Init /\ [][Next]_vars

\* ------------------------------------------- pruning on its own (C6, C7)
MaxPruneEntries == 2   \* entries of the ledgers cleanupOldNotified is applied to

\* timestamps found in a ledger: one to MaxDays + 1 days old, and today's
PruneTimes == {toISOString(d * DayMs) : d \in (0 - 1)..MaxDays}

PruneValues ==
  {[at |-> t, title |-> "Fix"] : t \in PruneTimes}
    \cup {[notifiedAt |-> t, updatedAt |-> t, title |-> "Fix"] : t \in PruneTimes}
    \cup {[at |-> [text |-> "yesterday"], notifiedAt |-> toISOString(MaxDays * DayMs),
           title |-> "Fix"],
          [at |-> toISOString(MaxDays * DayMs), notifiedAt |-> toISOString(0 - DayMs),
           title |-> "Fix"],
          [notifiedAt |-> [text |-> "yesterday"], title |-> "Fix"],
          [title |-> "Fix"]}

PruneLedgers ==
  LET keySeqs == {s \in UNION {[1..n -> LedgerKeys] : n \in 0..MaxPruneEntries} : Injective(s)}
  IN  UNION {{[i \in 1..Len(s) |-> [key |-> s[i], value |-> v[i]]]
               : v \in [1..Len(s) -> PruneValues]} : s \in keySeqs}

InitPrune ==
  /\ configFile \in {Missing} \cup {File([notifiedRetentionDays |-> r]) : r \in 1..MaxRetention}
  /\ notifiedFile \in {Missing, Corrupt} \cup {File(l) : l \in PruneLedgers}
  /\ now \in {d * DayMs : d \in 0..MaxDays}
  /\ InitRun

\* a run up to the call of fetchPRs
NextPrune ==
  \/ \E a \in {<<>>, <<"--dry-run">>} : Start(1, a)
  \/ mainLoadConfig(1)
  \/ mainLoadNotified(1)

SpecPrune == InitPrune /\ [][NextPrune]_vars

\* -------------------------------------------------- stats on its own (C14)
MaxStatsEntries == 5   \* entries of the ledgers handleStats is applied to

StatsRepos == {"o/a", "o/b", "o/c", "o/d"}

\* an entry inside the 7-day window and one exactly 7 days old
StatsPlainValues ==
  {[at |-> toISOString(0 - (StatsWindowDays - 1) * DayMs), title |-> "Fix"],
   [at |-> toISOString(0 - StatsWindowDays * DayMs), title |-> "Fix"]}

StatsValues ==
  StatsPlainValues
    \cup {[at |-> toISOString(0), title |-> "Fix"],
          [at |-> toISOString(0 - (StatsWindowDays + 1) * DayMs), title |-> "Fix"],
          [notifiedAt |-> toISOString(0 - DayMs), updatedAt |-> toISOString(0),
           title |-> "Fix"],
          [at |-> [text |-> "yesterday"], title |-> "Fix"],
          [title |-> "Fix"]}

\* ledgers of n entries whose i-th key is <<repository, i>>
StatsLedgersOf(n, values) ==
  {[i \in 1..n |-> [key |-> <<r[i], i>>, value |-> v[i]]]
     : r \in [1..n -> StatsRepos], v \in [1..n -> values]}

InitStats ==
  /\ configFile = File([notifiedRetentionDays |-> 1])
  /\ \/ notifiedFile \in {Missing, Corrupt}
     \/ \E n \in 0..MaxStatsEntries :
          \E l \in StatsLedgersOf(n, StatsPlainValues) : notifiedFile = File(l)
     \/ \E n \in 0..2 :
          \E l \in StatsLedgersOf(n, StatsValues) : notifiedFile = File(l)
  /\ now = 0
  /\ InitRun

\* `node index.js stats`
NextStats ==
  \/ Start(1, <<"stats">>)
  \/ handleStats(1)

SpecStats == InitStats /\ [][NextStats]_vars

\* ------------------------------------------- loadConfig on its own (C15)
\* config.json with every field written
FullConfigs ==
  [maxTabsToOpen : (0 - 1)..MaxTabs, paused : BOOLEAN, excludeDraft : BOOLEAN,
   notifiedRetentionDays : 1..MaxRetention, enableNotification : BOOLEAN,
   note : {"mine"}]

\* config.json is missing, does not parse, or holds any of the fields, and
\* maybe one the script does not know
InitConfig ==
  /\ \/ configFile \in {Missing, Corrupt}
     \/ \E full \in FullConfigs : \E present \in SUBSET DOMAIN full :
          configFile = File([f \in present |-> full[f]])
  /\ notifiedFile = Missing
  /\ now = 0
  /\ InitRun

\* a run up to the paused check, and the commands that load the configuration
NextConfig ==
  \/ \E a \in {<<>>, <<"status">>, <<"pause">>, <<"resume">>} : Start(1, a)
  \/ mainLoadConfig(1)
  \/ handleCommand(1)

SpecConfig == InitConfig /\ [][NextConfig]_vars

\* ------------------------------------------ two runs at once (C17)
\* one step of a run of process p that was started once, without arguments
RunStep(p) ==
  \/ pc[p] = "idle" /\ Start(p, <<>>)
  \/ mainLoadConfig(p)
  \/ mainLoadNotified(p)
  \/ \E result \in GhResults : mainFetch(p, TRUE, result)
  \/ mainFetch(p, FALSE, <<>>)
  \/ mainSaveEmpty(p)
  \/ \E launched \in BOOLEAN : mainOpenTab(p, launched)
  \/ \E shown \in BOOLEAN : mainNotify(p, shown)
  \/ mainPersist(p)

\* nothing orders the steps of two invocations
NextConc == \E p \in Procs : RunStep(p)

\* no config.json, any notified.json
InitConc ==
  /\ configFile = Missing
  /\ notifiedFile \in InitNotifiedFiles
  /\ now = 0
  /\ InitRun

SpecConc == InitConc /\ [][NextConc]_vars

\* ------------------------------- runs repeated on one fetch result (C20)
\* what gh prints in every run: the first pull requests, unedited
SteadyFetch ==
  [i \in 1..Min(NumPRs, MaxFetch) |->
     PR(i, [title |-> "Fix", updatedAt |-> toISOString(0)])]

\* config.json is missing, does not parse, or says not paused with
\* maxTabsToOpen >= 1
InitSteady ==
  /\ configFile \in
       {Missing, Corrupt}
         \cup {File(d) : d \in {c \in InitConfigData :
                                  /\ "paused" \in DOMAIN c
                                  /\ ~c.paused
                                  /\ c.maxTabsToOpen >= 1}}
  /\ notifiedFile \in InitNotifiedFiles
  /\ now = 0
  /\ InitRun

\* the shell loop starts run after run; gh succeeds every time
NextSteady ==
  \/ \E a \in {<<>>, <<"--dry-run">>} : Start(1, a)
  \/ mainLoadConfig(1)
  \/ mainLoadNotified(1)
  \/ mainFetch(1, TRUE, SteadyFetch)
  \/ \E launched \in BOOLEAN : mainOpenTab(1, launched)
  \/ \E shown \in BOOLEAN : mainNotify(1, shown)
  \/ mainPersist(1)
  \/ Tick

\* a run that can take a step takes it, and the loop never stops starting runs
SpecSteady == InitSteady /\ [][NextSteady]_vars /\ WF_vars(NextSteady)

\* ------------------------------------------------------------- properties
\* process p runs main (its first argument is no command)
Main(p) == COMMAND(argv[p]) \notin {"pause", "resume", "status", "stats"}

\* the key of the pull request a url belongs to
KeyOfUrl(u) == <<u[2], u[4]>>

KeysOf(prSeq) == {key(prSeq[i]) : i \in 1..Len(prSeq)}

\* the calls of openTab of process p that returned true
Succeeded(p) == SelectSeq(opens[p], LAMBDA o : o.ok)

\* config.json holds paused: true
FilePaused ==
  /\ configFile.state = "ok"
  /\ "paused" \in DOMAIN configFile.data
  /\ configFile.data.paused

\* the ledger a run started now would work on
LedgerNow ==
  cleanupOldNotified(loadNotified(notifiedFile),
                     loadConfig(configFile).notifiedRetentionDays, now)

\* C1: while a run opens tabs, no pull request it has opened has its key in the
\* persisted ledger as pruned for this run, whatever title and updatedAt the
\* fetch gave it (runs follow one another; an entry the run's pruning removes
\* no longer remains in the ledger).
C1_NotReopened ==
  (pc[1] \in {"open", "notify", "persist"})
    => \A i \in 1..Len(opens[1]) :
         KeyOfUrl(opens[1][i].url) \notin
           Keys(cleanupOldNotified(loadNotified(notifiedFile),
                                   config[1].notifiedRetentionDays, now))

\* a run that fetched a pull request whose retained entry carries another
\* title, skipped it and opened another one
C1_Witness ==
  /\ pc[1] = "persist"
  /\ Len(opens[1]) >= 1
  /\ \E i \in 1..Len(prs[1]) :
       /\ key(prs[1][i]) \in Keys(pruned[1])
       /\ Lookup(pruned[1], key(prs[1][i])).title # prs[1][i].title
       /\ \A j \in 1..Len(opens[1]) : opens[1][j].url # prs[1][i].url

\* C2: once the for loop of a non-paused run is over, if none of the N fetched
\* pull requests is in the pruned ledger and maxTabsToOpen = M >= 0, openTab was
\* called min(N, M) times, on the first min(N, M) fetched pull requests in order.
C2_OpensFirstMin ==
  (/\ pc[1] \in {"saveEmpty", "notify", "persist", "exited"}
   /\ Main(1)
   /\ Len(fetches[1]) = 1
   /\ config[1].maxTabsToOpen >= 0
   /\ KeysOf(prs[1]) \cap Keys(pruned[1]) = {})
    => LET n == Min(Len(prs[1]), config[1].maxTabsToOpen)
       IN  /\ Len(opens[1]) = n
           /\ \A i \in 1..n : opens[1][i].url = prs[1][i].url

\* a finished run that fetched two new pull requests and, capped at one tab,
\* opened the first
C2_Witness ==
  /\ pc[1] = "exited"
  /\ Main(1)
  /\ Len(prs[1]) = 2
  /\ KeysOf(prs[1]) \cap Keys(pruned[1]) = {}
  /\ config[1].maxTabsToOpen = 1
  /\ Len(opens[1]) = 1
  /\ opens[1][1].url = prs[1][1].url

\* C3: a pull request whose open failed gets no ledger entry from the run, in
\* memory or on disk; the run still calls openTab for every selected pull
\* request; and a pull request whose latest open failed is, in a run that
\* fetches it, selected unless maxTabsToOpen pull requests are selected.
C3_FailedOpenRetried ==
  /\ (Main(1) /\ pc[1] \in {"open", "notify", "persist", "exited"})
       => /\ \A i \in 1..Len(opens[1]) :
               ~opens[1][i].ok
                 => /\ KeyOfUrl(opens[1][i].url) \notin Keys(notified[1])
                    /\ pc[1] = "exited"
                         => KeyOfUrl(opens[1][i].url) \notin Keys(loadNotified(notifiedFile))
          /\ \A i \in 1..Len(prs[1]) :
               key(prs[1][i]) \in failedOpens
                 => \/ prs[1][i] \in Range(newPRs[1])
                    \/ Len(newPRs[1]) >= config[1].maxTabsToOpen
  /\ (Main(1) /\ pc[1] \in {"notify", "persist", "exited"})
       => Len(opens[1]) = Len(newPRs[1])

\* a run that has selected, and not yet opened, a pull request whose open
\* failed in an earlier run
C3_Witness ==
  /\ pc[1] = "open"
  /\ opens[1] = <<>>
  /\ key(newPRs[1][1]) \in failedOpens

\* C4: a run that finds paused: true in config.json is one step: it exits 0
\* having logged 'Paused' only, with no fetch, no openTab, no notification, no
\* read and no write of the ledger, and notified.json and config.json as before.
C4_PausedRunInert ==
  [][(pc[1] = "top" /\ Main(1) /\ FilePaused)
       => /\ pc'[1] = "exited"
          /\ exitCode'[1] = 0
          /\ stdout'[1] = <<Line("Paused")>>
          /\ fetches'[1] = <<>>
          /\ opens'[1] = <<>>
          /\ notifications'[1] = <<>>
          /\ ledgerReads'[1] = 0
          /\ ledgerWrites'[1] = 0
          /\ notifiedFile' = notifiedFile
          /\ configFile' = configFile]_vars

\* a paused run has exited next to a ledger that holds entries
C4_Witness ==
  /\ pc[1] = "exited"
  /\ Main(1)
  /\ FilePaused
  /\ config[1].paused
  /\ stdout[1] = <<Line("Paused")>>
  /\ Len(loadNotified(notifiedFile)) >= 1

\* an entry the retention window no longer covers: no timestamp that parses,
\* or one that is retentionDays old or older
Expired(value, retentionDays, nowMs) ==
  LET ts == IF "at" \in DOMAIN value THEN value.at
            ELSE IF "notifiedAt" \in DOMAIN value THEN value.notifiedAt
            ELSE [text |-> ""]
  IN  "iso" \in DOMAIN ts => ts.iso <= nowMs - retentionDays * DayMs

\* C5: when a non-paused run whose fetch returned no pull request has exited,
\* it has written notified.json once, the file is the pruned ledger, and no
\* entry that was loaded expired is in it.
C5_EmptyFetchPersistsPruned ==
  (pc[1] = "exited" /\ Main(1) /\ Len(fetches[1]) = 1 /\ prs[1] = <<>>)
    => /\ ledgerWrites[1] = 1
       /\ notifiedFile = File(pruned[1])
       /\ \A i \in 1..Len(loaded[1]) :
            Expired(loaded[1][i].value, config[1].notifiedRetentionDays, now)
              => loaded[1][i].key \notin Keys(loadNotified(notifiedFile))

\* an empty-fetch run has exited and its pruning removed an entry from the file
C5_Witness ==
  /\ pc[1] = "exited"
  /\ Main(1)
  /\ Len(fetches[1]) = 1
  /\ prs[1] = <<>>
  /\ notifiedFile.state = "ok"
  /\ Len(loaded[1]) > Len(notifiedFile.data)

\* C6: cleanupOldNotified returns, in their order and with their values, exactly
\* the entries whose timestamp (at if present, else notifiedAt) parses and is
\* strictly newer than now - retentionDays days, and the ledger it was given is
\* still what notified.json holds.
C6_PruneExact ==
  (pc[1] = "fetch")
    => /\ pruned[1] =
            SelectSeq(loaded[1], LAMBDA e :
              ~Expired(e.value, config[1].notifiedRetentionDays, now))
       /\ loaded[1] = loadNotified(notifiedFile)

\* a pruning that dropped an entry exactly retentionDays old and kept a legacy
\* entry
C6_Witness ==
  /\ pc[1] = "fetch"
  /\ \E i \in 1..Len(loaded[1]) :
       /\ loaded[1][i].value =
            [at |-> toISOString(now - config[1].notifiedRetentionDays * DayMs),
             title |-> "Fix"]
       /\ loaded[1][i].key \notin Keys(pruned[1])
  /\ \E i \in 1..Len(pruned[1]) : "at" \notin DOMAIN pruned[1][i].value

\* C7: pruning the pruned ledger again, with the same retention at the same
\* time, returns it unchanged.
C7_PruneIdempotent ==
  (pc[1] = "fetch")
    => cleanupOldNotified(pruned[1], config[1].notifiedRetentionDays, now) = pruned[1]

\* a pruning that dropped one of two entries
C7_Witness ==
  /\ pc[1] = "fetch"
  /\ Len(loaded[1]) = 2
  /\ Len(pruned[1]) = 1

\* C8 as stated: a notification is sent only if a tab was opened with success
\* and enableNotification is true, at most once, with the count of tabs opened
\* with success.
C8_NotifiesOpened ==
  (Main(1) /\ pc[1] \in {"persist", "exited"})
    => /\ Len(notifications[1]) <= 1
       /\ Len(notifications[1]) = 1
            => /\ config[1].enableNotification
               /\ Len(Succeeded(1)) >= 1
               /\ notifications[1][1].count = Len(Succeeded(1))

\* C8 amended: a notification is sent only if a pull request was selected for
\* opening and enableNotification is true, at most once, with the count of the
\* selected pull requests, which is the count of the calls of openTab.
C8_NotifiesSelected ==
  (Main(1) /\ pc[1] \in {"persist", "exited"})
    => /\ Len(notifications[1]) <= 1
       /\ Len(notifications[1]) = 1
            => /\ config[1].enableNotification
               /\ Len(newPRs[1]) >= 1
               /\ notifications[1][1].count = Len(newPRs[1])
               /\ notifications[1][1].count = Len(opens[1])

\* a finished run whose only open failed and that sent its notification
C8_Witness ==
  /\ pc[1] = "exited"
  /\ Len(opens[1]) = 1
  /\ ~opens[1][1].ok
  /\ Len(notifications[1]) = 1
  /\ notifications[1][1].count = 1

\* C9: a --dry-run run launches no browser, every call of openTab returns true,
\* and once it has exited every pull request it selected has an entry in
\* notified.json, so that a run started now selects none of them, whatever
\* their title.
C9_DryRunRecords ==
  (Main(1) /\ DRY_RUN(argv[1]))
    => /\ \A i \in 1..Len(opens[1]) : ~opens[1][i].browser /\ opens[1][i].ok
       /\ pc[1] = "exited"
            => /\ Len(opens[1]) = Len(newPRs[1])
               /\ \A i \in 1..Len(newPRs[1]) :
                    /\ key(newPRs[1][i]) \in Keys(loadNotified(notifiedFile))
                    /\ \A rev \in Revisions :
                         SelectNew(<<PR(newPRs[1][i].number, rev)>>, LedgerNow, 1) = <<>>

\* a dry run has exited after selecting two pull requests
C9_Witness ==
  /\ pc[1] = "exited"
  /\ Main(1)
  /\ DRY_RUN(argv[1])
  /\ Len(newPRs[1]) = 2
  /\ Len(opens[1]) = 2

\* C10: pause, resume, status and stats are one step: the process exits 0 with
\* no fetch, no openTab, no notification and no write of the ledger;
\* notified.json is as before, and so is config.json after status and stats.
C10_CommandsBypassMain ==
  [][(pc[1] = "top" /\ ~Main(1))
       => /\ pc'[1] = "exited"
          /\ exitCode'[1] = 0
          /\ fetches'[1] = <<>>
          /\ opens'[1] = <<>>
          /\ notifications'[1] = <<>>
          /\ ledgerWrites'[1] = 0
          /\ notifiedFile' = notifiedFile
          /\ COMMAND(argv[1]) \in {"status", "stats"} => configFile' = configFile]_vars

\* pause has exited, config.json says paused, next to a ledger with entries
C10_Witness ==
  /\ pc[1] = "exited"
  /\ COMMAND(argv[1]) = "pause"
  /\ FilePaused
  /\ Len(loadNotified(notifiedFile)) >= 1

\* C11: when the gh command of a run fails, fetchPRs returns [] and the failure
\* is logged; the run goes on as one whose fetch was empty: it calls openTab for
\* nothing, adds no entry to the ledger, and exits 0 having written the pruned
\* ledger and logged 'No review requests'.
C11_FetchFailureIsEmptyFetch ==
  (Main(1) /\ Len(fetches[1]) = 1 /\ ~fetches[1][1].ok)
    => /\ prs[1] = <<>>
       /\ newPRs[1] = <<>>
       /\ opens[1] = <<>>
       /\ notifications[1] = <<>>
       /\ notified[1] = pruned[1]
       /\ Len(stdout[1]) >= 3
       /\ SubSeq(stdout[1], 1, 3) =
            <<Line("Started"), Line("[ERROR] GitHub API failed"), LineN("Fetched", 0)>>
       /\ \/ pc[1] = "saveEmpty" /\ exitCode[1] = NoExit /\ ledgerWrites[1] = 0
          \/ /\ Stopped(1)
             /\ exitCode[1] = 0
             /\ ledgerWrites[1] = 1
             /\ notifiedFile = File(pruned[1])
             /\ stdout[1][Len(stdout[1])] = Line("No review requests")

\* a run whose gh command failed has exited, next to a ledger that kept an
\* entry
C11_Witness ==
  /\ pc[1] = "exited"
  /\ Main(1)
  /\ Len(fetches[1]) = 1
  /\ ~fetches[1][1].ok
  /\ exitCode[1] = 0
  /\ Len(pruned[1]) >= 1
  /\ notifiedFile = File(pruned[1])

\* C12: while notified.json is missing or does not parse, loadNotified returns
\* the empty object and the process goes on: main prunes it to the empty
\* ledger and fetches, stats counts no entry, and the run that ends exits 0,
\* having written as its ledger exactly the entries of the opens that
\* succeeded, as a run on an empty ledger does.
C12_MissingOrCorruptLedgerIsEmpty ==
  [][(notifiedFile.state \in {"missing", "corrupt"})
       => /\ (pc[1] = "loadNotified")
               => /\ loaded'[1] = <<>>
                  /\ notified'[1] = <<>>
                  /\ pc'[1] = "fetch"
                  /\ exitCode'[1] = NoExit
          /\ (pc[1] = "top" /\ COMMAND(argv[1]) = "stats")
               => /\ statsOut'[1] = [total |-> 0, recent |-> 0, topRepos |-> <<>>]
                  /\ exitCode'[1] = 0
          /\ (pc[1] \in {"fetch", "saveEmpty", "open", "notify", "persist"})
               => /\ loaded[1] = <<>>
                  /\ pruned[1] = <<>>
                  /\ Keys(notified[1]) = {KeyOfUrl(o.url) : o \in Range(Succeeded(1))}
          /\ (pc[1] \in {"saveEmpty", "persist"})
               => /\ pc'[1] = "exited"
                  /\ exitCode'[1] = 0
                  /\ notifiedFile' = File(notified[1])]_vars

\* a run that found notified.json unparseable has opened a tab and is about to
\* write the ledger
C12_Witness ==
  /\ pc[1] = "persist"
  /\ notifiedFile = Corrupt
  /\ loaded[1] = <<>>
  /\ Len(Succeeded(1)) >= 1
  /\ Len(notified[1]) >= 1

\* the most steps process p still takes before it exits
StepsLeft(p) ==
  CASE pc[p] = "top" -> MaxFetch + 5
    [] pc[p] = "loadNotified" -> MaxFetch + 4
    [] pc[p] = "fetch" -> MaxFetch + 3
    [] pc[p] = "open" -> (Len(newPRs[p]) - idx[p]) + 3
    [] pc[p] = "notify" -> 2
    [] pc[p] \in {"saveEmpty", "persist"} -> 1
    [] OTHER -> 0

\* C13: a non-paused run ends, and with exit code 0, whatever gh, each `open`
\* and osascript do: every step it takes brings it nearer to its exit, in each
\* state before the exit its next step can be taken with either outcome, and
\* it exits with code 0.  Nothing is tried twice: the run calls gh once, sends
\* at most one notification, writes the ledger at most once, and its calls of
\* openTab are, in order, the first pull requests it selected, one call each.
C13_RunEndsWithoutRetry ==
  [][(Main(1) /\ ~Stopped(1))
       => /\ StepsLeft(1)' < StepsLeft(1)
          /\ pc'[1] = "exited" => exitCode'[1] = 0
          /\ pc[1] = "fetch"
               => /\ ENABLED mainFetch(1, FALSE, <<>>)
                  /\ \A result \in GhResults : ENABLED mainFetch(1, TRUE, result)
          /\ pc[1] = "open"
               => /\ ENABLED mainOpenTab(1, TRUE)
                  /\ DRY_RUN(argv[1]) \/ ENABLED mainOpenTab(1, FALSE)
          /\ pc[1] = "notify"
               => \A shown \in BOOLEAN : ENABLED mainNotify(1, shown)
          /\ Len(fetches[1]) <= 1
          /\ Len(notifications[1]) <= 1
          /\ ledgerWrites[1] <= 1
          /\ Len(opens[1]) <= Len(newPRs[1])
          /\ \A i \in 1..Len(opens[1]) : opens[1][i].url = newPRs[1][i].url
          /\ \A i, j \in 1..Len(opens'[1]) :
               opens'[1][i].url = opens'[1][j].url => i = j]_vars

\* a run has exited 0 after gh printed two pull requests, the open of the first
\* failed and the open of the second succeeded
C13_Witness ==
  /\ pc[1] = "exited"
  /\ Main(1)
  /\ exitCode[1] = 0
  /\ Len(opens[1]) = 2
  /\ ~opens[1][1].ok
  /\ opens[1][2].ok
  /\ Len(notifications[1]) = 1

\* the entries of led that belong to repository r
EntriesOf(led, r) == {i \in 1..Len(led) : RepoOfKey(led[i].key) = r}

\* the position of the first entry of led that belongs to repository r
FirstOf(led, r) == CHOOSE i \in EntriesOf(led, r) : \A j \in EntriesOf(led, r) : i <= j

\* repository a comes before repository b in the ranking of stats: more
\* entries, or as many and met first
RanksBefore(led, a, b) ==
  \/ Cardinality(EntriesOf(led, a)) > Cardinality(EntriesOf(led, b))
  \/ /\ Cardinality(EntriesOf(led, a)) = Cardinality(EntriesOf(led, b))
     /\ FirstOf(led, a) < FirstOf(led, b)

\* C14: stats prints the number of entries of notified.json; the number of
\* them whose timestamp (at, else notifiedAt) parses and is newer than now - 7
\* days, whatever notifiedRetentionDays is; and the min(3, number of
\* repositories) repositories that rank first by number of entries, each with
\* its number of entries, highest first and, among equals, the one met first in
\* the file first.  For an empty ledger it prints total 0 and no repository.
C14_StatsReport ==
  (pc[1] = "exited" /\ COMMAND(argv[1]) = "stats")
    => LET led == loadNotified(notifiedFile)
           repos == {RepoOfKey(led[i].key) : i \in 1..Len(led)}
           top == statsOut[1].topRepos
           listed == {top[i].repo : i \in 1..Len(top)}
       IN  /\ statsOut[1].total = Len(led)
           /\ statsOut[1].recent =
                Cardinality({i \in 1..Len(led) :
                               ~Expired(led[i].value, StatsWindowDays, now)})
           /\ Len(top) = Min(TopRepos, Cardinality(repos))
           /\ listed \subseteq repos
           /\ \A i \in 1..Len(top) :
                top[i].count = Cardinality(EntriesOf(led, top[i].repo))
           /\ \A i, j \in 1..Len(top) :
                i < j => RanksBefore(led, top[i].repo, top[j].repo)
           /\ \A r \in repos \ listed : \A i \in 1..Len(top) :
                RanksBefore(led, top[i].repo, r)
           /\ led = <<>> => statsOut[1].total = 0 /\ top = <<>>

\* stats has printed three of four repositories, the first with two entries,
\* the others tied and in the order of the file, leaving out the one met last;
\* an entry exactly 7 days old is not counted as recent though the retention
\* is one day
C14_Witness ==
  /\ pc[1] = "exited"
  /\ COMMAND(argv[1]) = "stats"
  /\ loadConfig(configFile).notifiedRetentionDays = 1
  /\ statsOut[1].total = 5
  /\ statsOut[1].recent = 4
  /\ statsOut[1].topRepos =
       <<[repo |-> "o/b", count |-> 2], [repo |-> "o/c", count |-> 1],
         [repo |-> "o/a", count |-> 1]>>

\* field f as config.json stores it, or as the documented defaults have it
StoredOrDefault(f) ==
  IF configFile.state = "ok" /\ f \in DOMAIN configFile.data
  THEN configFile.data[f]
  ELSE CASE f = "maxTabsToOpen" -> 5
         [] f = "paused" -> FALSE
         [] f = "excludeDraft" -> TRUE
         [] f = "notifiedRetentionDays" -> 7
         [] f = "enableNotification" -> TRUE

\* C15: the configuration main loads has the five fields, each with the value
\* config.json stores for it or, when the file is missing, does not parse or
\* lacks the field, with its default: maxTabsToOpen 5, paused false,
\* excludeDraft true, notifiedRetentionDays 7, enableNotification true; and
\* status reports the paused so loaded.
C15_ConfigDefaultsMerged ==
  /\ (Main(1) /\ pc[1] \in {"loadNotified", "exited"})
       => /\ {"maxTabsToOpen", "paused", "excludeDraft", "notifiedRetentionDays",
              "enableNotification"} \subseteq DOMAIN config[1]
          /\ \A f \in ConfigFields : config[1][f] = StoredOrDefault(f)
          /\ configFile.state # "ok" => DOMAIN config[1] = ConfigFields
  /\ (pc[1] = "exited" /\ COMMAND(argv[1]) = "status")
       => stdout[1] = <<Line(IF StoredOrDefault("paused") THEN "Paused" ELSE "Active")>>

\* main has loaded a config.json that stores maxTabsToOpen and a field of the
\* user's only
C15_Witness ==
  /\ pc[1] = "loadNotified"
  /\ configFile.state = "ok"
  /\ DOMAIN configFile.data = {"maxTabsToOpen", "note"}
  /\ config[1].maxTabsToOpen = 0
  /\ config[1].notifiedRetentionDays = 7
  /\ config[1].enableNotification

\* the fetched pull request of process p that has key k
FetchedWithKey(p, k) == CHOOSE pr \in Range(prs[p]) : key(pr) = k

\* C16: when a non-paused run has exited, notified.json holds the loaded
\* ledger as pruned, entry for entry and in its order, followed by one entry
\* {at: now, title: the fetched title} for each pull request whose open
\* succeeded in the run, and nothing else: no key is added without a successful
\* open, and a retained entry keeps its value even if its pull request was
\* fetched again.
C16_PersistedIsPrunedPlusOpened ==
  (pc[1] = "exited" /\ Main(1) /\ Len(fetches[1]) = 1)
    => LET opened == {KeyOfUrl(o.url) : o \in Range(Succeeded(1))}
           final == loadNotified(notifiedFile)
       IN  /\ notifiedFile.state = "ok"
           /\ pruned[1] = cleanupOldNotified(loaded[1], config[1].notifiedRetentionDays, now)
           /\ Len(final) = Len(pruned[1]) + Len(Succeeded(1))
           /\ SubSeq(final, 1, Len(pruned[1])) = pruned[1]
           /\ Keys(final) = Keys(pruned[1]) \cup opened
           /\ opened \cap Keys(pruned[1]) = {}
           /\ \A k \in opened :
                Lookup(final, k) =
                  [at |-> toISOString(now), title |-> FetchedWithKey(1, k).title]
           /\ \A i \in 1..Len(prs[1]) :
                key(prs[1][i]) \in Keys(pruned[1])
                  => Lookup(final, key(prs[1][i])) = Lookup(pruned[1], key(prs[1][i]))

\* a run has exited that fetched, under a new title, a pull request with a
\* retained entry of an earlier day, and that opened another one
C16_Witness ==
  /\ pc[1] = "exited"
  /\ Main(1)
  /\ now = DayMs
  /\ Len(pruned[1]) = 1
  /\ Len(Succeeded(1)) = 1
  /\ \E i \in 1..Len(prs[1]) :
       /\ key(prs[1][i]) = pruned[1][1].key
       /\ prs[1][i].title # pruned[1][1].value.title
       /\ "at" \in DOMAIN pruned[1][1].value
       /\ pruned[1][1].value.at # toISOString(now)
  /\ Len(loadNotified(notifiedFile)) = 2

\* the keys process p has recorded in its run
Recorded(p) == Keys(notified[p]) \ Keys(pruned[p])

\* C17: two runs at once take no lock: a run can read notified.json and can
\* write it wherever the other run is, and once a run has written, the file is
\* word for word the in-memory ledger of the run that wrote last, with nothing
\* of the other's merged in.  (The interleaving the claim speaks of is the
\* state C17_Witness.)
C17_LastWriterWins ==
  /\ \A p \in Procs :
       /\ pc[p] = "loadNotified" => ENABLED mainLoadNotified(p)
       /\ pc[p] = "persist" => ENABLED mainPersist(p)
  /\ (\E p \in Procs : ledgerWrites[p] >= 1)
       => \E p \in Procs : ledgerWrites[p] = 1 /\ notifiedFile = File(notified[p])

\* both runs loaded the ledger before either wrote it, both opened the same
\* pull request, and both have exited: an entry one of them recorded is not
\* in notified.json, which holds the ledger of the other
C17_Witness ==
  \E p, q \in Procs :
    /\ p # q
    /\ pc[p] = "exited" /\ pc[q] = "exited"
    /\ ledgerWrites[p] = 1 /\ ledgerWrites[q] = 1
    /\ loaded[p] = <<>> /\ loaded[q] = <<>>
    /\ Recorded(p) # {} /\ Recorded(q) # {}
    /\ \E k \in Recorded(p) : k \notin Keys(loadNotified(notifiedFile))
    /\ notifiedFile = File(notified[q])
    /\ \E i \in 1..Len(opens[p]), j \in 1..Len(opens[q]) :
         /\ opens[p][i].url = opens[q][j].url
         /\ opens[p][i].ok /\ opens[q][j].ok
         /\ opens[p][i].browser /\ opens[q][j].browser

\* C18: a run whose maxTabsToOpen is zero or negative calls openTab for no
\* pull request and adds no entry to the ledger, however many new pull requests
\* gh printed.
C18_NonPositiveCapOpensNone ==
  (Main(1) /\ Len(fetches[1]) = 1 /\ config[1].maxTabsToOpen <= 0)
    => /\ newPRs[1] = <<>>
       /\ opens[1] = <<>>
       /\ notified[1] = pruned[1]

\* process 1 is about to execute the command cmd
AboutTo(cmd) == pc[1] = "top" /\ COMMAND(argv[1]) = cmd

\* C19: pause and resume write config.json with paused true, respectively
\* false, and every other field as loaded (stored, or its default), touching
\* nothing else; paused: true stays in the file through every step but resume,
\* and paused: false or absent through every step but pause; a run started
\* while the file says paused exits at once with no fetch, no openTab and no
\* write of the ledger, and a run started while it does not goes on to load the
\* ledger.
C19_PauseHoldsUntilResume ==
  [][/\ \A cmd \in {"pause", "resume"} :
          AboutTo(cmd)
            => /\ configFile'.state = "ok"
               /\ DOMAIN configFile'.data = ConfigFields
               /\ configFile'.data.paused = (cmd = "pause")
               /\ \A f \in ConfigFields \ {"paused"} :
                    configFile'.data[f] = StoredOrDefault(f)
               /\ notifiedFile' = notifiedFile
               /\ pc'[1] = "exited"
     /\ (FilePaused /\ ~AboutTo("resume")) => FilePaused'
     /\ (~FilePaused /\ ~AboutTo("pause")) => ~FilePaused'
     /\ (pc[1] = "top" /\ Main(1))
          => IF FilePaused
             THEN /\ pc'[1] = "exited"
                  /\ fetches'[1] = <<>>
                  /\ opens'[1] = <<>>
                  /\ ledgerWrites'[1] = 0
                  /\ notifiedFile' = notifiedFile
             ELSE /\ pc'[1] = "loadNotified"
                  /\ ~config'[1].paused]_vars

\* a run has exited inert on a config.json that pause wrote: it holds the
\* five fields, with the excludeDraft: false the user had stored
C19_Witness ==
  /\ pc[1] = "exited"
  /\ Main(1)
  /\ stdout[1] = <<Line("Paused")>>
  /\ FilePaused
  /\ DOMAIN configFile.data = ConfigFields
  /\ ~configFile.data.excludeDraft
  /\ configFile.data.maxTabsToOpen = 5

\* C20: under runs repeated without end on the same fetch result, not paused
\* and with maxTabsToOpen >= 1, every fetched pull request is, sooner or later,
\* selected for a tab open by some run (or is in the ledger already): none
\* waits for ever behind the pull requests ahead of it, even if their opens
\* keep failing.
C20_NoStarvation ==
  \A i \in 1..Len(SteadyFetch) :
    <>(\/ SteadyFetch[i] \in Range(newPRs[1])
       \/ key(SteadyFetch[i]) \in Keys(loadNotified(notifiedFile)))
====
